---- MODULE Spec2Model ----
(***************************************************************************)
(* Model of the Chitral Concierge request pipeline (src/main.py):          *)
(* get_web_context, get_ai_response_with_context and the form-submit       *)
(* handler.  Text is a sequence of pieces (a piece is a literal of the     *)
(* source, a value of a search result, or one character of user or model   *)
(* text); the empty string is <<>>.  A Python value that may be None is a  *)
(* tagged record, so that `if x:` and `not x` are computed as Python does. *)
(***************************************************************************)
EXTENDS Integers, Sequences, FiniteSets, TLC

VARIABLES tavily_api_key, openai_api_key, pc, user_input, web_context,
          sources, final_response, display, search_query, search_requests,
          chat_requests, search_outcome, chat_outcome, uncaught

vars == <<tavily_api_key, openai_api_key, pc, user_input, web_context,
          sources, final_response, display, search_query, search_requests,
          chat_requests, search_outcome, chat_outcome, uncaught>>

(* ------------------------------ bounds --------------------------------- *)
MaxResults == 2
MaxInputLen == 2
MaxAnswerLen == 2

(* --------------------------- Python values ----------------------------- *)
None == [kind |-> "None"]
Str(s) == [kind |-> "str", val |-> s]
Unset == [kind |-> "unset"]

\* truth value of a str-or-None value, as tested by `if x:` / `not x`
Truthy(v) == v.kind = "str" /\ Len(v.val) > 0

IsSpace(c) == c = " "

RECURSIVE lstrip(_)
lstrip(s) == IF s # <<>> /\ IsSpace(Head(s)) THEN lstrip(Tail(s)) ELSE s

RECURSIVE rstrip(_)
rstrip(s) == IF s # <<>> /\ IsSpace(s[Len(s)])
             THEN rstrip(SubSeq(s, 1, Len(s) - 1)) ELSE s

strip(s) == rstrip(lstrip(s))

\* sep.join(parts)
RECURSIVE join(_, _)
join(sep, parts) ==
    IF parts = <<>> THEN <<>>
    ELSE IF Len(parts) = 1 THEN parts[1]
    ELSE parts[1] \o sep \o join(sep, Tail(parts))

SeqsUpTo(S, n) == UNION {[1..k -> S] : k \in 0..n}

(* ------------------------- external inputs ----------------------------- *)
Keys == {None, Str(<<>>), Str(<<"k">>)}

Inputs == SeqsUpTo({" ", "q"}, MaxInputLen)

\* search results as the provider may return them: dictionaries that
\* normally carry url, title and content, but any key may be missing
Results ==
    {[url |-> u, title |-> "T", content |-> c] : u \in {"A", "B"}, c \in {"X", "Y"}}
    \cup {[url |-> "A", title |-> "", content |-> "X"],
          [url |-> "B", content |-> "Y"],
          [title |-> "T", content |-> "X"],
          [url |-> "A", title |-> "T"]}

\* what tavily_client.search does: raises, or returns None, a dictionary
\* without "results", or a dictionary with a list of results
SearchOutcomes ==
    {[kind |-> "raise"], [kind |-> "none"], [kind |-> "no_results_key"]}
    \cup {[kind |-> "results", results |-> rs] : rs \in SeqsUpTo(Results, MaxResults)}

\* what client.chat.completions.create does: raises, or returns a response
\* with no choice, with a choice whose content is None, or with text
ChatOutcomes ==
    {[kind |-> "raise"], [kind |-> "no_choices"], [kind |-> "content_none"]}
    \cup {[kind |-> "content", content |-> t] : t \in SeqsUpTo({" ", "a"}, MaxAnswerLen)}

NotCalled == [kind |-> "not_called"]

(* --------------------------- get_web_context --------------------------- *)
NoResultsText == <<"No relevant information found from web search.">>

SearchQuery(query) ==
    <<"latest information on ">> \o query \o <<" in Chitral, Pakistan">>

SearchRequest(query) ==
    [query |-> SearchQuery(query), search_depth |-> "advanced", max_results |-> 5]

\* `not response or not response.get("results")`
NoResults(outcome) ==
    \/ outcome.kind \in {"none", "no_results_key"}
    \/ outcome.kind = "results" /\ outcome.results = <<>>

\* f"Source URL: {result['url']}\nContent: {result['content']}"
ContextPart(result) ==
    <<"Source URL: ", result["url"], "\nContent: ", result["content"]>>

ContextSeparator == <<"\n\n---\n\n">>

context_parts(results) == [i \in 1..Len(results) |-> ContextPart(results[i])]

\* variant: the parts are joined in reverse order
structured_context_reversed(results) ==
    join(ContextSeparator,
         [i \in 1..Len(results) |-> ContextPart(results[Len(results) + 1 - i])])

structured_context(results) == join(ContextSeparator, context_parts(results))

\* the body of the try block: raised is TRUE when the search call or a
\* subscript result['url'] / result['content'] raises
SearchTry(outcome) ==
    IF outcome.kind = "raise"
    THEN [raised |-> TRUE, error |-> <<"provider error">>]
    ELSE IF NoResults(outcome)
    THEN [raised |-> FALSE, context |-> Str(NoResultsText), sources |-> <<>>]
    ELSE IF \E i \in 1..Len(outcome.results) :
                ~ ({"url", "content"} \subseteq DOMAIN outcome.results[i])
    THEN [raised |-> TRUE, error |-> <<"KeyError">>]
    ELSE [raised |-> FALSE,
          context |-> Str(structured_context(outcome.results)),
          sources |-> outcome.results]

SearchDisabledNotice ==
    [kind |-> "warning", text |-> <<"Tavily API key not found. Web search is disabled.">>]

SearchErrorNotice(e) ==
    [kind |-> "error", text |-> <<"An error occurred during web search: ">> \o e]

\* variant: the key test is missing, the search is attempted without a key
get_web_context_no_key_check(query, key, outcome) ==
    LET t == SearchTry(outcome) IN
    IF t.raised
    THEN [context |-> None, sources |-> <<>>,
          notices |-> <<SearchErrorNotice(t.error)>>,
          requests |-> <<SearchRequest(query)>>,
          search_query |-> Str(SearchQuery(query)), escaped |-> FALSE]
    ELSE [context |-> t.context, sources |-> t.sources,
          notices |-> <<>>,
          requests |-> <<SearchRequest(query)>>,
          search_query |-> Str(SearchQuery(query)), escaped |-> FALSE]

\* variant: no except clause, an exception of the try block leaves the function
get_web_context_reraise(query, key, outcome) ==
    IF ~ Truthy(key)
    THEN [context |-> None, sources |-> <<>>,
          notices |-> <<SearchDisabledNotice>>,
          requests |-> <<>>, search_query |-> Unset, escaped |-> FALSE]
    ELSE LET t == SearchTry(outcome) IN
         IF t.raised
         THEN [context |-> None, sources |-> <<>>,
               notices |-> <<>>,
               requests |-> <<SearchRequest(query)>>,
               search_query |-> Str(SearchQuery(query)), escaped |-> TRUE]
         ELSE [context |-> t.context, sources |-> t.sources,
               notices |-> <<>>,
               requests |-> <<SearchRequest(query)>>,
               search_query |-> Str(SearchQuery(query)), escaped |-> FALSE]

get_web_context(query, key, outcome) ==
    IF ~ Truthy(key)
    THEN [context |-> None, sources |-> <<>>,
          notices |-> <<SearchDisabledNotice>>,
          requests |-> <<>>, search_query |-> Unset, escaped |-> FALSE]
    ELSE LET t == SearchTry(outcome) IN
         IF t.raised
         THEN [context |-> None, sources |-> <<>>,
               notices |-> <<SearchErrorNotice(t.error)>>,
               requests |-> <<SearchRequest(query)>>,
               search_query |-> Str(SearchQuery(query)), escaped |-> FALSE]
         ELSE [context |-> t.context, sources |-> t.sources,
               notices |-> <<>>,
               requests |-> <<SearchRequest(query)>>,
               search_query |-> Str(SearchQuery(query)), escaped |-> FALSE]

(* -------------------- get_ai_response_with_context --------------------- *)
NotConfiguredText == <<"Error: OpenAI API key is not configured.">>

ContextSystemMessage ==
    <<"You are a helpful assistant specializing in Chitral, Pakistan. ",
      "Use the provided 'Web Context' from a search to give a comprehensive and up-to-date answer to the user's question. ",
      "Synthesize the information from the context into your response.">>

GeneralSystemMessage ==
    <<"You are a helpful assistant specializing in Chitral, Pakistan. ",
      "Answer the user's question based on your general knowledge. ",
      "Mention that web search was not available or did not return relevant information.">>

system_message(context) ==
    IF Truthy(context) THEN ContextSystemMessage ELSE GeneralSystemMessage

user_prompt(query, context) ==
    IF Truthy(context)
    THEN <<"\n        Web Context:\n        ---\n        ">> \o context.val
         \o <<"\n        ---\n        Question: ">> \o query \o <<"\n        ">>
    ELSE query

ChatRequest(query, context) ==
    [model |-> "gpt-4",
     messages |-> <<[role |-> "system", content |-> system_message(context)],
                    [role |-> "user", content |-> user_prompt(query, context)]>>,
     temperature |-> "0.5"]

\* the body of the try block: response.choices[0].message.content.strip()
ChatTry(outcome) ==
    CASE outcome.kind = "raise" ->
            [raised |-> TRUE, error |-> <<"provider error">>]
      [] outcome.kind = "no_choices" ->
            [raised |-> TRUE, error |-> <<"IndexError">>]
      [] outcome.kind = "content_none" ->
            [raised |-> TRUE, error |-> <<"AttributeError">>]
      [] outcome.kind = "content" ->
            [raised |-> FALSE, value |-> Str(strip(outcome.content))]

ChatErrorNotice(e) ==
    [kind |-> "error", text |-> <<"An OpenAI API error occurred: ">> \o e]

\* variant: the key test is missing, the chat call is attempted without a key
get_ai_response_no_key_check(query, context, key, outcome) ==
    LET t == ChatTry(outcome) IN
    IF t.raised
    THEN [value |-> None, notices |-> <<ChatErrorNotice(t.error)>>,
          requests |-> <<ChatRequest(query, context)>>, escaped |-> FALSE]
    ELSE [value |-> t.value, notices |-> <<>>,
          requests |-> <<ChatRequest(query, context)>>, escaped |-> FALSE]

\* variant: no except clause, an exception of the try block leaves the function
get_ai_response_reraise(query, context, key, outcome) ==
    IF ~ Truthy(key)
    THEN [value |-> Str(NotConfiguredText), notices |-> <<>>,
          requests |-> <<>>, escaped |-> FALSE]
    ELSE LET t == ChatTry(outcome) IN
         IF t.raised
         THEN [value |-> None, notices |-> <<>>,
               requests |-> <<ChatRequest(query, context)>>, escaped |-> TRUE]
         ELSE [value |-> t.value, notices |-> <<>>,
               requests |-> <<ChatRequest(query, context)>>, escaped |-> FALSE]

get_ai_response_with_context(query, context, key, outcome) ==
    IF ~ Truthy(key)
    THEN [value |-> Str(NotConfiguredText), notices |-> <<>>,
          requests |-> <<>>, escaped |-> FALSE]
    ELSE LET t == ChatTry(outcome) IN
         IF t.raised
         THEN [value |-> None,
               notices |-> <<ChatErrorNotice(t.error)>>,
               requests |-> <<ChatRequest(query, context)>>, escaped |-> FALSE]
         ELSE [value |-> t.value, notices |-> <<>>,
               requests |-> <<ChatRequest(query, context)>>, escaped |-> FALSE]

(* ------------------------- the submit handler -------------------------- *)
AskFirstNotice == [kind |-> "warning", text |-> <<"Please ask a question first.">>]

FailureNotice ==
    [kind |-> "error",
     text |-> <<"Sorry, I encountered an issue and was unable to process your request.">>]

Subheader == [kind |-> "subheader", text |-> <<"Concierge Response:">>]

Expander == [kind |-> "expander", text |-> <<"View Sources Used">>]

AnswerMarkdown(text) == [kind |-> "markdown", text |-> text]

\* f"**{i+1}. {source['title']}**\n   [Read more]({source['url']})", i 0-based
SourceMarkdown(i, source) ==
    [kind |-> "markdown",
     text |-> <<"**", ToString(i + 1), ". ", source["title"],
                "**\n   [Read more](", source["url"], ")">>]

\* number of sources the loop renders before source['title'] raises KeyError
Rendered(srcs) ==
    IF \E i \in 1..Len(srcs) : "title" \notin DOMAIN srcs[i]
    THEN (CHOOSE i \in 1..Len(srcs) :
             /\ "title" \notin DOMAIN srcs[i]
             /\ \A j \in 1..(i - 1) : "title" \in DOMAIN srcs[j]) - 1
    ELSE Len(srcs)

SourceEntries(srcs) == [i \in 1..Rendered(srcs) |-> SourceMarkdown(i - 1, srcs[i])]

Init ==
    /\ tavily_api_key \in Keys
    /\ openai_api_key \in Keys
    /\ pc = "idle"
    /\ user_input = <<>>
    /\ web_context = Unset
    /\ sources = <<>>
    /\ final_response = Unset
    /\ display = <<>>
    /\ search_query = Unset
    /\ search_requests = <<>>
    /\ chat_requests = <<>>
    /\ search_outcome = NotCalled
    /\ chat_outcome = NotCalled
    /\ uncaught = "none"

\* the form is submitted: a new script run starts; `if user_input:`
Submit ==
    /\ pc = "idle"
    /\ \E inp \in Inputs :
          /\ user_input' = inp
          /\ IF Len(inp) > 0
             THEN pc' = "augment" /\ display' = <<>>
             ELSE pc' = "idle" /\ display' = <<AskFirstNotice>>
    /\ web_context' = Unset
    /\ sources' = <<>>
    /\ final_response' = Unset
    /\ search_requests' = <<>>
    /\ chat_requests' = <<>>
    /\ search_outcome' = NotCalled
    /\ chat_outcome' = NotCalled
    /\ uncaught' = "none"
    /\ UNCHANGED <<tavily_api_key, openai_api_key, search_query>>

\* web_context, sources = get_web_context(user_input)
Augment ==
    /\ pc = "augment"
    /\ \E outcome \in SearchOutcomes :
          LET r == get_web_context(user_input, tavily_api_key, outcome) IN
          /\ search_outcome' = IF r.requests = <<>> THEN NotCalled ELSE outcome
          /\ search_requests' = r.requests
          /\ search_query' = IF r.search_query = Unset THEN search_query
                             ELSE r.search_query
          /\ display' = display \o r.notices
          /\ IF r.escaped
             THEN /\ pc' = "idle"
                  /\ uncaught' = "get_web_context"
                  /\ UNCHANGED <<web_context, sources>>
             ELSE /\ pc' = "generate"
                  /\ web_context' = r.context
                  /\ sources' = r.sources
                  /\ UNCHANGED uncaught
    /\ UNCHANGED <<tavily_api_key, openai_api_key, user_input, final_response,
                   chat_requests, chat_outcome>>

\* final_response = get_ai_response_with_context(user_input, web_context)
Generate ==
    /\ pc = "generate"
    /\ \E outcome \in ChatOutcomes :
          LET r == get_ai_response_with_context(user_input, web_context,
                                                openai_api_key, outcome) IN
          /\ chat_outcome' = IF r.requests = <<>> THEN NotCalled ELSE outcome
          /\ chat_requests' = r.requests
          /\ display' = display \o r.notices
          /\ IF r.escaped
             THEN /\ pc' = "idle"
                  /\ uncaught' = "get_ai_response_with_context"
                  /\ UNCHANGED final_response
             ELSE /\ pc' = "present"
                  /\ final_response' = r.value
                  /\ UNCHANGED uncaught
    /\ UNCHANGED <<tavily_api_key, openai_api_key, user_input, web_context,
                   sources, search_query, search_requests, search_outcome>>

\* st.subheader, then the answer with its sources, or the failure notice;
\* a KeyError raised by source['title'] ends the script run
Present ==
    /\ pc = "present"
    /\ pc' = "idle"
    /\ IF Truthy(final_response)
       THEN IF sources # <<>>
            THEN /\ display' = display \o <<Subheader, AnswerMarkdown(final_response.val),
                                            Expander>> \o SourceEntries(sources)
                 /\ uncaught' = IF Rendered(sources) < Len(sources)
                                THEN "submit_handler" ELSE "none"
            ELSE /\ display' = display \o <<Subheader, AnswerMarkdown(final_response.val)>>
                 /\ UNCHANGED uncaught
       ELSE /\ display' = display \o <<Subheader, FailureNotice>>
            /\ UNCHANGED uncaught
    /\ UNCHANGED <<tavily_api_key, openai_api_key, user_input, web_context,
                   sources, final_response, search_query, search_requests,
                   chat_requests, search_outcome, chat_outcome>>

Next == Submit \/ Augment \/ Generate \/ Present

Spec == Init /\ [][Next]_vars

TypeOK ==
    /\ pc \in {"idle", "augment", "generate", "present"}
    /\ user_input \in Inputs
    /\ uncaught \in {"none", "get_web_context", "get_ai_response_with_context",
                     "submit_handler"}

(* ============================== claims ================================= *)
\* get_web_context has returned in the current run
Augmented == web_context # Unset

\* get_ai_response_with_context has returned in the current run
Generated == final_response # Unset

\* the current run went through the whole pipeline and ended
RunComplete == pc = "idle" /\ Generated

\* the kinds of the display elements, in order
Kinds(d) == [i \in 1..Len(d) |-> d[i].kind]

IsBlank(s) == \A i \in 1..Len(s) : IsSpace(s[i])

\* C1: with the search key configured and zero results from the provider,
\* the chat request uses the general-knowledge branch: general system
\* message and the bare question as user message.
C1_GeneralBranchOnNoResults ==
    (Truthy(tavily_api_key) /\ NoResults(search_outcome) /\ chat_requests # <<>>)
    => /\ chat_requests[1].messages[1].content = GeneralSystemMessage
       /\ chat_requests[1].messages[2].content = user_input

\* C2: whenever get_web_context has returned, the context is present
\* (not None) if and only if at least one source was returned.
C2_ContextIffSources ==
    Augmented => ((web_context # None) <=> (Len(sources) >= 1))

\* C3: a submission whose input is empty or only whitespace shows the
\* 'please ask a question' notice, calls no provider, and ends the run.
C3_BlankInputRejected ==
    (IsBlank(user_input) /\ (pc # "idle" \/ display # <<>>))
    => /\ pc = "idle"
       /\ display = <<AskFirstNotice>>
       /\ search_requests = <<>>
       /\ chat_requests = <<>>

\* C4: when the generator result is None or the 'not configured' error
\* string, the run shows the generic failure notice and neither an answer
\* nor the sources block.
C4_FailureNoticeOnFailureLike ==
    (RunComplete /\ (final_response = None \/ final_response = Str(NotConfiguredText)))
    => /\ display[Len(display)] = FailureNotice
       /\ \A i \in 1..Len(display) : display[i].kind \notin {"markdown", "expander"}

\* C5: with the search key absent, get_web_context returns (None, []),
\* issues no search request, and only shows the 'search disabled' warning;
\* the run goes on.
C5_NoSearchKey ==
    (~ Truthy(tavily_api_key) /\ (Augmented \/ uncaught = "get_web_context"))
    => /\ web_context = None
       /\ sources = <<>>
       /\ search_requests = <<>>
       /\ search_outcome = NotCalled
       /\ display # <<>> /\ display[1] = SearchDisabledNotice
       /\ \A i \in 2..Len(display) : display[i] # SearchDisabledNotice
       /\ uncaught # "get_web_context"

C5_Witness ==
    /\ ~ Truthy(tavily_api_key)
    /\ pc = "generate"
    /\ user_input = <<"q", " ">>
    /\ display = <<SearchDisabledNotice>>

\* C6: with the chat key absent, get_ai_response_with_context returns the
\* fixed configuration-error string for every question and every context,
\* and issues no chat request.
C6_NoChatKey ==
    (~ Truthy(openai_api_key) /\ (Generated \/ uncaught = "get_ai_response_with_context"))
    => /\ final_response = Str(NotConfiguredText)
       /\ chat_requests = <<>>
       /\ chat_outcome = NotCalled
       /\ uncaught # "get_ai_response_with_context"

C6_Witness ==
    /\ ~ Truthy(openai_api_key)
    /\ pc = "present"
    /\ Truthy(web_context)
    /\ sources # <<>>
    /\ final_response = Str(NotConfiguredText)

\* C7: when the search call throws, get_web_context returns (None, []) and
\* reports an error, the generator is still invoked and (with a chat key)
\* issues its request on the general-knowledge branch, and a usable answer
\* is presented without a sources block.
C7_SearchFailureDegrades ==
    (search_outcome.kind = "raise")
    => /\ web_context = None
       /\ sources = <<>>
       /\ display # <<>> /\ display[1] = SearchErrorNotice(<<"provider error">>)
       /\ pc \in {"generate", "present", "idle"}
       /\ pc = "generate" => ENABLED Generate
       /\ pc \in {"present", "idle"} =>
             /\ Generated
             /\ Truthy(openai_api_key) =>
                   /\ Len(chat_requests) = 1
                   /\ chat_requests[1].messages[1].content = GeneralSystemMessage
                   /\ chat_requests[1].messages[2].content = user_input
       /\ (pc = "idle" /\ Truthy(final_response) /\ chat_outcome.kind = "content") =>
             /\ display = <<SearchErrorNotice(<<"provider error">>), Subheader,
                            AnswerMarkdown(final_response.val)>>
             /\ uncaught = "none"

C7_Witness ==
    /\ search_outcome.kind = "raise"
    /\ pc = "idle"
    /\ chat_outcome.kind = "content"
    /\ final_response = Str(<<"a">>)
    /\ Kinds(display) = <<"error", "subheader", "markdown">>

\* the title shown for a source: its title, or the empty string when absent
TitleOrEmpty(source) == IF "title" \in DOMAIN source THEN source["title"] ELSE ""

ExpectedEntry(i, source) ==
    [kind |-> "markdown",
     text |-> <<"**", ToString(i), ". ", TitleOrEmpty(source),
                "**\n   [Read more](", source["url"], ")">>]

\* the generator returned text of the chat provider, not empty
UsableAnswer == Truthy(final_response) /\ chat_outcome.kind = "content"

\* C8: with a usable answer and non-empty sources, the run shows the answer
\* and then one entry per source in order (index i+1, title or empty string
\* when the title is absent, URL), and the presentation completes.
C8_SourcesPresented ==
    (RunComplete /\ UsableAnswer /\ sources # <<>>)
    => /\ uncaught = "none"
       /\ Len(display) >= Len(sources) + 2
       /\ LET base == Len(display) - Len(sources) IN
          /\ display[base - 1] = AnswerMarkdown(final_response.val)
          /\ display[base] = Expander
          /\ \A i \in 1..Len(sources) :
                display[base + i] = ExpectedEntry(i, sources[i])

WellFormed(rs) == \A i \in 1..Len(rs) : {"url", "content"} \subseteq DOMAIN rs[i]

\* text is the entries 'Source URL: <url>\nContent: <content>' of rs, in
\* the order of rs, separated by '\n\n---\n\n'
IsJoinedContext(text, rs) ==
    /\ Len(text) = 5 * Len(rs) - 1
    /\ \A i \in 1..Len(rs) :
          /\ text[5 * (i - 1) + 1] = "Source URL: "
          /\ text[5 * (i - 1) + 2] = rs[i]["url"]
          /\ text[5 * (i - 1) + 3] = "\nContent: "
          /\ text[5 * (i - 1) + 4] = rs[i]["content"]
          /\ i < Len(rs) => text[5 * i] = "\n\n---\n\n"

Perms(n) == {p \in [1..n -> 1..n] : \A i, j \in 1..n : p[i] = p[j] => i = j}

\* C9: for a non-empty sequence of results the returned context is the
\* entries of the records in the same order joined by the separator, the
\* returned sources are the same records in the same order, and permuting
\* the records permutes the entries identically.
C9_ContextIsOrderedJoin ==
    (search_outcome.kind = "results" /\ search_outcome.results # <<>>
        /\ WellFormed(search_outcome.results))
    => LET rs == search_outcome.results IN
       /\ sources = rs
       /\ web_context.kind = "str"
       /\ IsJoinedContext(web_context.val, rs)
       /\ (rs = <<[url |-> "A", title |-> "T", content |-> "X"],
                  [url |-> "B", title |-> "T", content |-> "Y"]>>)
             => web_context.val = <<"Source URL: ", "A", "\nContent: ", "X",
                                    "\n\n---\n\n",
                                    "Source URL: ", "B", "\nContent: ", "Y">>
       /\ \A p \in Perms(Len(rs)) :
             LET prs == [i \in 1..Len(rs) |-> rs[p[i]]] IN
             IsJoinedContext(get_web_context(user_input, tavily_api_key,
                                 [kind |-> "results", results |-> prs]).context.val,
                             prs)

C9_Witness ==
    /\ pc = "generate"
    /\ search_outcome.kind = "results"
    /\ Len(search_outcome.results) = MaxResults
    /\ search_outcome.results[1]["url"] = "B"
    /\ search_outcome.results[2] = [url |-> "A", title |-> "", content |-> "X"]
    /\ Truthy(web_context)
    /\ sources = search_outcome.results

\* C10: no exception leaves get_web_context or
\* get_ai_response_with_context, each returns a reportable value, every
\* finished run has displayed a message (answer, warning or error), and the
\* system is again ready for a submission.
C10_NoEscapeAlwaysMessage ==
    /\ uncaught \notin {"get_web_context", "get_ai_response_with_context"}
    /\ Augmented => web_context.kind \in {"None", "str"}
    /\ Generated => final_response.kind \in {"None", "str"}
    /\ pc = "augment" => ENABLED Augment
    /\ pc = "generate" => ENABLED Generate
    /\ pc = "present" => ENABLED Present
    /\ pc \in {"augment", "generate", "present"} => Len(user_input) > 0
    /\ pc = "idle" =>
          /\ ENABLED Submit
          /\ (Len(user_input) > 0 => Generated)
          /\ (display # <<>> \/ Len(user_input) > 0) =>
                \E i \in 1..Len(display) :
                    display[i].kind \in {"markdown", "warning", "error"}

C10_Witness ==
    /\ pc = "idle"
    /\ Truthy(tavily_api_key) /\ Truthy(openai_api_key)
    /\ search_outcome.kind = "results" /\ ~ WellFormed(search_outcome.results)
    /\ chat_outcome.kind = "no_choices"
    /\ Kinds(display) = <<"error", "error", "subheader", "error">>
====
